---- MODULE Spec2Model ----
(***************************************************************************)
(* Model of rpicode.py: the GPIO poll loop of main() and the pipeline      *)
(* process_once() it starts (capture, description, text extraction,        *)
(* location resolution, narration).                                         *)
(*                                                                         *)
(* Time is counted in milliseconds.  Python values that may be None, a     *)
(* number or a string are records [k, n, s] so that Python's truthiness    *)
(* (None, 0 and "" are false) can be computed as the interpreter does.     *)
(* Strings are sequences of one-character strings.                         *)
(***************************************************************************)
EXTENDS Integers, Sequences, FiniteSets, TLC

\* ------------------------------------------------------------ constants
PIN_LEVELS == {0, 1}
POLL_MS == 40
DEBOUNCE_MS == 200
MIN_TEXT_LEN == 20
MAX_APS == 20
IP_ACCURACY == 50000

\* ------------------------------------------------------------ bounds
\* the clock advances in steps of Quantum ms and stops at MaxTime
Quantum == 40
MaxTime == 480
\* physical level changes between two samples of the pin
MaxTogs == 3

\* ------------------------------------------------------------ values
None == [k |-> "none", n |-> 0, s |-> <<>>]
Num(x) == [k |-> "num", n |-> x, s |-> <<>>]
Str(cs) == [k |-> "str", n |-> 0, s |-> cs]
\* a float, counted in tenths: Float(1507) is 150.7
Float(t) == [k |-> "float", n |-> t, s |-> <<>>]
IsNumber(v) == v.k \in {"num", "float"}

\* Python truth value of an object: None, 0 and "" are false
Truthy(v) ==
  CASE v.k = "none" -> FALSE
    [] v.k = "num" -> v.n # 0
    [] v.k = "float" -> v.n # 0
    [] v.k = "str" -> v.s # <<>>

Rep(c, n) == [i \in 1..n |-> c]

Min(a, b) == IF a < b THEN a ELSE b

\* ------------------------------------------------------------ strings
LowerCs == <<"a","b","c","d","e","f","g","h","i","j","k","l","m",
             "n","o","p","q","r","s","t","u","v","w","x","y","z">>
UpperCs == <<"A","B","C","D","E","F","G","H","I","J","K","L","M",
             "N","O","P","Q","R","S","T","U","V","W","X","Y","Z">>

UpperCh(c) ==
  IF \E i \in DOMAIN LowerCs : LowerCs[i] = c
  THEN UpperCs[CHOOSE i \in DOMAIN LowerCs : LowerCs[i] = c]
  ELSE c

\* str.upper()
Upper(cs) == [i \in DOMAIN cs |-> UpperCh(cs[i])]

IsSpace(c) == c \in {" ", "\n"}

RECURSIVE LStrip(_)
LStrip(cs) == IF cs # <<>> /\ IsSpace(Head(cs)) THEN LStrip(Tail(cs)) ELSE cs

RECURSIVE RStrip(_)
RStrip(cs) ==
  IF cs # <<>> /\ IsSpace(cs[Len(cs)]) THEN RStrip(SubSeq(cs, 1, Len(cs) - 1)) ELSE cs

\* str.strip()
Strip(cs) == RStrip(LStrip(cs))

\* sub in cs
Contains(cs, sub) ==
  \E i \in 1..(Len(cs) - Len(sub) + 1) : SubSeq(cs, i, i + Len(sub) - 1) = sub

\* cs.split(sep) for a one-character separator
RECURSIVE Split(_, _)
Split(cs, sep) ==
  IF \A i \in DOMAIN cs : cs[i] # sep
  THEN <<cs>>
  ELSE LET i == CHOOSE j \in DOMAIN cs : cs[j] = sep /\ \A h \in 1..(j - 1) : cs[h] # sep
       IN  <<SubSeq(cs, 1, i - 1)>> \o Split(SubSeq(cs, i + 1, Len(cs)), sep)

\* ------------------------------------------------------------ literals
SEM_TEXTO == <<"S","E","M","_","T","E","X","T","O">>
TEXTO_PRESENTE_SIM ==
  <<"T","E","X","T","O","_","P","R","E","S","E","N","T","E","=","S","I","M">>
TEXTO_PRESENTE_NAO ==
  <<"T","E","X","T","O","_","P","R","E","S","E","N","T","E","=","N","A","O">>
\* "Lendo o texto encontrado: "
LEAD_IN ==
  <<"L","e","n","d","o"," ","o"," ","t","e","x","t","o"," ","e","n","c","o","n","t","r","a","d","o",":"," ">>
\* the fixed parts of the location message, without the accents
MSG_HEAD ==
  <<"E","s","t","a","m","o","s"," ","n","a"," ","r","e","g","i","a","o"," ","d","e"," ">>
MSG_MID ==
  <<"."," ","P","r","e","c","i","s","a","o"," ","a","p","r","o","x","i","m","a","d","a"," ">>
MSG_TAIL == <<" ","m","e","t","r","o","s",".">>
\* "local não identificado", without the accent
PLACEHOLDER ==
  <<"l","o","c","a","l"," ","n","a","o"," ","i","d","e","n","t","i","f","i","c","a","d","o">>

\* ------------------------------------------------------------ inputs
\* frames the camera can deliver
Frames == {1, 2}

\* what the local OCR engine reads in a frame (before strip)
OcrEngine(f) ==
  CASE f = 1 -> <<" ", "\n">>
    [] f = 2 -> <<" ", "R", "u", "a", " ", "A", "\n">>
    [] OTHER -> Rep("b", MIN_TEXT_LEN + f)

\* contents the description request can return (before strip)
DescContents ==
  { <<"c", "e", "n", "a", "\n">> \o TEXTO_PRESENTE_SIM \o <<"\n">>,
    <<"c", "e", "n", "a", "\n">> \o
      <<"t","e","x","t","o","_","p","r","e","s","e","n","t","e","=","s","i","m">>,
    <<"c", "e", "n", "a", "\n">> \o TEXTO_PRESENTE_NAO,
    <<"c", "e", "n", "a">> }

\* contents the text-extraction request can return (before strip)
RemoteContents ==
  { SEM_TEXTO,
    <<"s","e","m","_","t","e","x","t","o">>,
    <<" ", "S","e","m","_","T","e","x","t","o", "\n">>,
    <<>>,
    Rep("a", MIN_TEXT_LEN - 1),
    Rep("a", MIN_TEXT_LEN),
    <<" ">> \o Rep("a", MIN_TEXT_LEN + 1) \o <<"\n">>,
    SEM_TEXTO \o Rep("a", MIN_TEXT_LEN - Len(SEM_TEXTO)) }

\* outputs of "iw dev wlan0 scan": a sequence of cells, each with a MAC and,
\* when the cell has a "signal:" line, a signal strength
ScanSizes == {0, 1, 2, MAX_APS + 2}
Cell(i, withSignal) ==
  [mac |-> i, signal |-> IF withSignal THEN Num(0 - 40 - i) ELSE None]
ScanOutputs ==
  { [i \in 1..n |-> Cell(i, TRUE)] : n \in ScanSizes } \cup
  { [i \in 1..n |-> Cell(i, i % 2 = 0)] : n \in ScanSizes } \cup
  { [i \in 1..n |-> Cell(i, FALSE)] : n \in ScanSizes }

\* answers of the WiFi-geolocation request: ok = FALSE is a network error, a
\* timeout, a body that is not JSON or has no "location" object
MlsResponses ==
  { [ok |-> FALSE, lat |-> None, lng |-> None, accuracy |-> None] } \cup
  [ ok : {TRUE},
    lat : {None, Num(0), Num(0 - 23)},
    lng : {None, Num(0 - 46)},
    accuracy : {None, Float(1507)} ]

\* answers of the IP-geolocation request: ok = FALSE is a network error, a
\* timeout or a body that is not a JSON object; loc = None is a body with
\* no "loc" key
IpResponses ==
  { [ok |-> FALSE, loc |-> None], [ok |-> TRUE, loc |-> None] } \cup
  [ ok : {TRUE},
    loc : { Str(<<"1", ",", "2">>), Str(<<"0", ",", "0">>), Str(<<",">>),
            Str(<<"1", ",">>), Str(<<",", "2">>), Str(<<"1">>),
            Str(<<"1", ",", "2", ",", "3">>), Str(<<>>) } ]

\* answers of the reverse-geocoding request: ok = FALSE is any failure;
\* a component is None when the key is absent or null
RUA_A == <<"R", "u", "a", " ", "A">>
BAIRRO_B == <<"B">>
CIDADE_C == <<"C">>
Address(road, suburb, neighbourhood, city, town, village, st) ==
  [road |-> road, suburb |-> suburb, neighbourhood |-> neighbourhood,
   city |-> city, town |-> town, village |-> village, state |-> st]
NoAddress == Address(None, None, None, None, None, None, None)
NominatimResponses ==
  { [ok |-> FALSE, address |-> NoAddress],
    [ok |-> TRUE, address |-> NoAddress],
    [ok |-> TRUE, address |->
       Address(Str(RUA_A), Str(<<>>), None, Str(CIDADE_C), None, None, Str(<<>>))],
    [ok |-> TRUE, address |->
       Address(None, None, Str(BAIRRO_B), None, Str(<<>>), Str(CIDADE_C), Str(<<"S">>))],
    [ok |-> TRUE, address |->
       Address(Str(RUA_A), Str(BAIRRO_B), Str(<<"N">>), Str(CIDADE_C), Str(<<"T">>),
               None, Str(<<"S">>))] }

\* ------------------------------------------------------------ pure code
\* a variant of "a or b" that passes over None only
Or_NonNull(a, b) == IF a # None THEN a ELSE b

\* a or b
Or(a, b) == IF Truthy(a) THEN a ELSE b

\* variants of the code below, used to test that the properties depend on it
TriggerCond_AtLeast(state_, last_, now_, last_t_) ==
  state_ # last_ /\ (now_ - last_t_) >= DEBOUNCE_MS
TriggerCond_NoEdge(state_, last_, now_, last_t_) ==
  (now_ - last_t_) > DEBOUNCE_MS
LockoutStart_AfterRun(now_, clock_) == clock_
Insufficient_Both(text_) == Upper(text_) = SEM_TEXTO /\ Len(text_) < MIN_TEXT_LEN
Insufficient_UpTo(text_) == Upper(text_) = SEM_TEXTO \/ Len(text_) <= MIN_TEXT_LEN
NeedsIp_Inverted(lat_) == Truthy(lat_)
TriggerCond_NoLockout(state_, last_, now_, last_t_) == state_ # last_
TextPresent_Always(desc_) == TRUE
scan_wifi_Last(raw) ==
  LET found == SelectSeq(raw, LAMBDA c : c.signal # None)
      all == [i \in DOMAIN found |->
                [macAddress |-> found[i].mac, signalStrength |-> found[i].signal.n]]
  IN  SubSeq(all, Len(all) - Min(Len(all), MAX_APS) + 1, Len(all))

\* main: state!=last and (now-last_t)*1000>DEBOUNCE_MS   (times in ms here)
TriggerCond(state_, last_, now_, last_t_) ==
  state_ # last_ /\ (now_ - last_t_) > DEBOUNCE_MS

\* main: process_once(); last_t = now   (the time read before the run)
LockoutStart(now_, clock_) == now_

\* process_once: "TEXTO_PRESENTE=SIM" in desc.upper()
TextPresent(desc_) == Contains(Upper(desc_), TEXTO_PRESENTE_SIM)

\* process_once: text.upper()=="SEM_TEXTO" or len(text)<20
Insufficient(text_) == Upper(text_) = SEM_TEXTO \/ Len(text_) < MIN_TEXT_LEN

\* ocr_tesseract: image_to_string(...).strip()
ocr_tesseract(jpeg_) == Strip(OcrEngine(jpeg_))

\* scan_wifi: the cells with a signal line, in scan order, cut at 20
scan_wifi(raw) ==
  LET found == SelectSeq(raw, LAMBDA c : c.signal # None)
      all == [i \in DOMAIN found |->
                [macAddress |-> found[i].mac, signalStrength |-> found[i].signal.n]]
  IN  SubSeq(all, 1, Min(Len(all), MAX_APS))

NoFix == <<None, None, None>>

\* geo_from_mls, once the scan is not empty: the (lat, lon, acc) it returns
geo_from_mls(resp) ==
  IF resp.ok THEN <<resp.lat, resp.lng, resp.accuracy>> ELSE NoFix

\* geo_from_ip: the (lat, lon, acc) it returns
geo_from_ip(resp) ==
  IF ~resp.ok THEN NoFix
  ELSE IF resp.loc = None THEN <<None, None, Num(IP_ACCURACY)>>
  ELSE LET parts == Split(resp.loc.s, ",")
       IN  IF Len(parts) # 2 THEN NoFix
           ELSE <<Str(parts[1]), Str(parts[2]), Num(IP_ACCURACY)>>

\* process_once: if not lat: lat, lon, acc = geo_from_ip()
NeedsIp(lat_) == ~Truthy(lat_)

\* process_once: if lat:
HasFix(lat_) == Truthy(lat_)

\* ", ".join(parts)
RECURSIVE Join(_)
Join(parts) ==
  IF parts = <<>> THEN <<>>
  ELSE IF Len(parts) = 1 THEN parts[1]
  ELSE parts[1] \o <<",", " ">> \o Join(Tail(parts))

\* reverse_nominatim: the place string it returns
reverse_nominatim(resp) ==
  IF ~resp.ok THEN <<>>
  ELSE LET addr == resp.address
           rua == Or(addr.road, Str(<<>>))
           bairro == Or(Or(addr.suburb, addr.neighbourhood), Str(<<>>))
           cidade == Or(Or(Or(addr.city, addr.town), addr.village), Str(<<>>))
           estado == Or(addr.state, Str(<<>>))
           xs == SelectSeq(<<rua, bairro, cidade, estado>>, Truthy)
       IN  Join([i \in DOMAIN xs |-> xs[i].s])

\* int(acc) raises TypeError on None
IntRaises(acc_) == ~IsNumber(acc_)

\* int(acc) of a number: a float is cut towards zero
IntOf(acc_) ==
  IF acc_.k = "float"
  THEN IF acc_.n >= 0 THEN acc_.n \div 10 ELSE 0 - ((0 - acc_.n) \div 10)
  ELSE acc_.n

\* str() of an integer
DigitCs == <<"0","1","2","3","4","5","6","7","8","9">>
RECURSIVE Digits(_)
Digits(n) ==
  IF n < 0 THEN <<"-">> \o Digits(0 - n)
  ELSE IF n < 10 THEN <<DigitCs[n + 1]>>
  ELSE Digits(n \div 10) \o <<DigitCs[(n % 10) + 1]>>

\* line 173: the location message
\* f"Estamos na região de {place}. Precisão aproximada {int(acc)} metros."
Message(place_, acc_) ==
  MSG_HEAD \o place_ \o MSG_MID \o Digits(IntOf(acc_)) \o MSG_TAIL

\* ------------------------------------------------------------ state
VARIABLES
  pc,        \* where main() is: "sleep", a stage of process_once, "ret",
             \* "finally" (an exception is propagating), "exited"
  gpio,      \* the pin is configured (GPIO.setup done, GPIO.cleanup not yet)
  clock,     \* time.monotonic(), in ms since last_t was first set
  slept,     \* ms spent in the current time.sleep
  level,     \* the physical level of the pin
  last, last_t, state, now,                 \* locals of main
  jpeg, desc, text, lat, lon, acc, place,   \* locals of process_once
  msg,       \* the location message
  raw, aps,  \* locals of scan_wifi and geo_from_mls, while geo_from_mls runs
  raised,    \* the exception that is leaving main ("" when none)
  remote,    \* the stripped answer of the text-extraction request, or None
  ocrOut,    \* what ocr_tesseract returned in this run, None when not called
  scanned,   \* "none" before scan_wifi returns, then "empty" or "found"
  mlsAns,    \* whether the WiFi service was contacted, and its answer
  ipTried,   \* geo_from_ip was called in this run
  ipAns,     \* whether the IP service was asked in this run, and its answer
  revAns,    \* whether the reverse-geocoding service was asked, and its answer
  spoken,    \* the kinds of narration played in this run, in order
  heard,     \* the text of the latest narration played in this run
  log,       \* the stages of this run that were executed, in order, each
             \* with whether it returned (ok) or raised
  asked,     \* the requests to end received: "int" (Ctrl+C), "term" (SIGTERM)
  lateRead,  \* GPIO.input was called after GPIO.cleanup
  chgT,      \* time of the latest change of level, -1 when none
  chgInRun,  \* that change happened while process_once was executing
  togs,      \* changes of level since the pin was last sampled
  polls,     \* samples of the pin since the latest change (2 = two or more)
  nTrig,     \* calls of process_once since the latest change
  trig,      \* the latest call of process_once: its poll time, the time
             \* since the call before it, and the change it answers
  fp         \* the first sample after the latest change: whether the number
             \* of changes since the sample before it was odd (the level read
             \* is not the one read before), and the time since PrevT

mainVars == <<last, last_t, state, now>>
runVars == <<jpeg, desc, text, lat, lon, acc, place, msg, raw, aps>>
runObs == <<raised, remote, ocrOut, scanned, mlsAns, ipTried, ipAns, revAns, spoken, heard, log>>
pollObs == <<chgT, chgInRun, togs, polls, nTrig, trig, fp>>
timeVars == <<clock, slept, level>>
endObs == <<asked, lateRead>>
vars == <<pc, gpio, timeVars, mainVars, runVars, runObs, pollObs, endObs>>

NoText == <<>>
NotContacted == [contacted |-> FALSE, ok |-> FALSE, lat |-> None, lng |-> None,
                 accuracy |-> None]
Contacted(r) == [contacted |-> TRUE, ok |-> r.ok, lat |-> r.lat, lng |-> r.lng,
                 accuracy |-> r.accuracy]
IpNotAsked == [asked |-> FALSE, ok |-> FALSE, loc |-> None]
IpAsked(j) == [asked |-> TRUE, ok |-> j.ok, loc |-> j.loc]
ReverseNotAsked == [asked |-> FALSE, ok |-> FALSE, address |-> NoAddress]
ReverseAsked(a) == [asked |-> TRUE, ok |-> a.ok, address |-> a.address]
NoTrig == [t |-> -1, gap |-> 0, held |-> 0, inRun |-> FALSE, poll |-> 0,
           edge |-> FALSE]
NoMsg == <<>>
NoSample == [odd |-> FALSE, gap |-> 0]
\* intervals are recorded up to this length
LongAgo == DEBOUNCE_MS + POLL_MS
\* the time the lockout of main counts from: startup or the latest trigger
PrevT == IF trig.t = -1 THEN 0 ELSE trig.t

\* the stages of process_once
Stages == {"capture", "describe", "tts_desc", "extract", "ocr", "tts_text",
           "scan", "mls", "ip", "reverse", "tts_loc", "ret"}
InRun == pc \in Stages

\* the locals of a call of process_once before it has set them
FreshRun ==
  /\ jpeg' = 0 /\ desc' = NoText /\ text' = NoText
  /\ lat' = None /\ lon' = None /\ acc' = None /\ place' = NoText
  /\ msg' = NoMsg /\ log' = <<>>
  /\ raw' = <<>> /\ aps' = <<>>
  /\ raised' = "" /\ remote' = None /\ ocrOut' = None
  /\ scanned' = "none"
  /\ mlsAns' = NotContacted /\ ipTried' = FALSE /\ spoken' = <<>> /\ heard' = <<>>
  /\ ipAns' = IpNotAsked /\ revAns' = ReverseNotAsked

\* main, lines 181-183: pin configured, first reading taken
Init ==
  /\ pc = "sleep" /\ gpio = TRUE
  /\ clock = 0 /\ slept = 0 /\ level \in PIN_LEVELS
  /\ last = level /\ last_t = 0 /\ state = level /\ now = 0
  /\ jpeg = 0 /\ desc = NoText /\ text = NoText
  /\ lat = None /\ lon = None /\ acc = None /\ place = NoText
  /\ msg = NoMsg /\ log = <<>>
  /\ asked = {} /\ lateRead = FALSE
  /\ raw = <<>> /\ aps = <<>>
  /\ raised = "" /\ remote = None /\ ocrOut = None
  /\ scanned = "none"
  /\ mlsAns = NotContacted /\ ipTried = FALSE /\ spoken = <<>> /\ heard = <<>>
  /\ ipAns = IpNotAsked /\ revAns = ReverseNotAsked
  /\ chgT = -1 /\ chgInRun = FALSE /\ togs = 0 /\ polls = 0 /\ nTrig = 0
  /\ trig = NoTrig /\ fp = NoSample

\* ------------------------------------------------------------ environment
\* time passes, up to the horizon: in time.sleep or in a blocking call of
\* process_once
Tick(horizon) ==
  /\ pc = "sleep" \/ InRun
  /\ clock + Quantum <= horizon
  /\ clock' = clock + Quantum
  /\ slept' = IF pc = "sleep" THEN Min(slept + Quantum, POLL_MS) ELSE slept
  /\ UNCHANGED <<pc, gpio, level, mainVars, runVars, runObs, pollObs, endObs>>

\* the switch changes the level of the pin, at most maxTogs times between two
\* samples
Toggle(maxTogs) ==
  /\ pc = "sleep" \/ InRun
  /\ togs < maxTogs
  /\ level' = 1 - level
  /\ chgT' = clock /\ chgInRun' = InRun
  /\ togs' = togs + 1 /\ polls' = 0 /\ nTrig' = 0 /\ fp' = NoSample
  /\ UNCHANGED <<pc, gpio, clock, slept, mainVars, runVars, runObs, trig, endObs>>

\* ------------------------------------------------------------ main
\* main, lines 186-191: one iteration of the poll loop, up to the call of
\* process_once when the condition of line 188 holds
\* GPIO.input returns the level of the pin
PollRead ==
  /\ state' = level /\ now' = clock
  /\ togs' = 0 /\ polls' = Min(polls + 1, 2)
  /\ fp' = IF chgT # -1 /\ polls = 0
           THEN [odd |-> togs % 2 = 1, gap |-> Min(clock - PrevT, LongAgo)]
           ELSE fp
  /\ IF TriggerCond(level, last, clock, last_t)
     THEN /\ pc' = "capture"
          /\ nTrig' = nTrig + 1
          /\ trig' = [t |-> clock, gap |-> Min(clock - PrevT, LongAgo),
                      held |-> Min(clock - chgT, LongAgo), inRun |-> chgInRun,
                      poll |-> polls', edge |-> level # state]
          /\ FreshRun
          /\ UNCHANGED <<last, last_t, slept>>
     ELSE /\ pc' = "sleep" /\ last' = level /\ slept' = 0
          /\ UNCHANGED <<last_t, nTrig, trig, runVars, runObs>>
  /\ UNCHANGED <<gpio, clock, level, chgT, chgInRun, asked>>

\* GPIO.input raises: the pin is not set up any more
PollRaise ==
  /\ pc' = "finally" /\ raised' = "gpio"
  /\ UNCHANGED <<gpio, timeVars, mainVars, runVars, pollObs, asked,
                 remote, ocrOut, scanned, mlsAns, ipTried, ipAns, revAns, spoken, heard, log>>

\* RPi.GPIO is not part of this program: a read of the pin after
\* GPIO.cleanup either raises or returns a level
Poll ==
  /\ pc = "sleep" /\ slept >= POLL_MS
  /\ lateRead' = (lateRead \/ ~gpio)
  /\ \/ PollRead
     \/ ~gpio /\ PollRaise

\* main, lines 190-191: process_once has returned
Return ==
  /\ pc = "ret"
  /\ last_t' = LockoutStart(now, clock) /\ last' = state
  /\ pc' = "sleep" /\ slept' = 0
  /\ FreshRun
  /\ UNCHANGED <<gpio, clock, level, state, now, pollObs, endObs>>

\* main, lines 192-195: an exception other than KeyboardInterrupt leaves the
\* loop through the finally clause and ends the process
Finally ==
  /\ pc = "finally"
  /\ gpio' = FALSE /\ pc' = "exited"
  /\ UNCHANGED <<timeVars, mainVars, runVars, runObs, pollObs, endObs>>

\* main, lines 192-193: Ctrl+C raises KeyboardInterrupt in the sleep or in
\* whatever process_once is doing; no handler of process_once catches it
\* (they catch Exception), main passes and goes to its finally clause
KeyboardInterrupt ==
  /\ pc = "sleep" \/ InRun
  /\ pc' = "finally" /\ asked' = asked \cup {"int"}
  /\ UNCHANGED <<gpio, timeVars, mainVars, runVars, runObs, pollObs, lateRead>>

\* line 198: the SIGTERM handler runs between two steps of the main thread,
\* calls GPIO.cleanup() and returns; the interrupted code then goes on
Sigterm ==
  /\ pc # "exited" /\ "term" \notin asked
  /\ gpio' = FALSE /\ asked' = asked \cup {"term"}
  /\ UNCHANGED <<pc, timeVars, mainVars, runVars, runObs, pollObs, lateRead>>

\* ------------------------------------------------------------ process_once
\* a variant of Raise in which process_once swallows the exception and
\* returns
Raise_Swallowed(cause) ==
  /\ pc' = "ret" /\ raised' = cause
  /\ log' = Append(log, [at |-> pc, ok |-> FALSE])
  /\ UNCHANGED <<gpio, timeVars, mainVars, runVars, pollObs, endObs,
                 remote, ocrOut, scanned, mlsAns, ipAns, revAns, ipTried, spoken, heard>>

\* an exception leaves process_once at stage pc
Raise(cause) ==
  /\ pc' = "finally" /\ raised' = cause
  /\ log' = Append(log, [at |-> pc, ok |-> FALSE])
  /\ UNCHANGED <<gpio, timeVars, mainVars, runVars, pollObs, endObs,
                 remote, ocrOut, scanned, mlsAns, ipAns, revAns, ipTried, spoken, heard>>

\* the rest of the state when a stage goes on to stage next
Goto(next) ==
  /\ pc' = next
  /\ log' = Append(log, [at |-> pc, ok |-> TRUE])
  /\ UNCHANGED <<gpio, timeVars, mainVars, pollObs, endObs, raised>>

\* line 140, capture_jpeg: a frame, or RuntimeError when no frame is read
Capture(frames) ==
  /\ pc = "capture"
  /\ \/ \E f \in frames :
          /\ jpeg' = f /\ Goto("describe")
          /\ UNCHANGED <<desc, text, lat, lon, acc, place, msg, raw, aps,
                         remote, ocrOut, scanned, mlsAns, ipAns, revAns, ipTried, spoken, heard>>
     \/ Raise("capture")

\* lines 142-149: the description request; an API error is not caught
Describe(contents) ==
  /\ pc = "describe"
  /\ \/ \E c \in contents :
          /\ desc' = Strip(c) /\ Goto("tts_desc")
          /\ UNCHANGED <<jpeg, text, lat, lon, acc, place, msg, raw, aps,
                         remote, ocrOut, scanned, mlsAns, ipAns, revAns, ipTried, spoken, heard>>
     \/ Raise("describe")

\* a variant of TtsDesc that goes on without narrating the description
TtsDesc_Skip ==
  /\ pc = "tts_desc"
  /\ pc' = (IF TextPresent(desc) THEN "extract" ELSE "scan")
  /\ UNCHANGED <<gpio, timeVars, mainVars, runVars, runObs, pollObs, endObs>>

\* lines 150-153: tts_play(desc), then the test for the text marker
TtsDesc ==
  /\ pc = "tts_desc"
  /\ \/ /\ spoken' = Append(spoken, "desc") /\ heard' = desc
        /\ Goto(IF TextPresent(desc) THEN "extract" ELSE "scan")
        /\ UNCHANGED <<runVars, remote, ocrOut, scanned, mlsAns, ipAns, revAns, ipTried>>
     \/ Raise("tts")

\* lines 154-164: the text-extraction request, then the test of its answer
Extract(contents) ==
  /\ pc = "extract"
  /\ \/ \E c \in contents :
          LET t == Strip(c)
          IN  /\ text' = t /\ remote' = Str(t)
              /\ Goto(IF Insufficient(t) THEN "ocr"
                      ELSE IF t # NoText THEN "tts_text" ELSE "scan")
              /\ UNCHANGED <<jpeg, desc, lat, lon, acc, place, msg, raw, aps,
                             ocrOut, scanned, mlsAns, ipAns, revAns, ipTried, spoken, heard>>
     \/ Raise("extract")

\* lines 163-164: text = ocr_tesseract(jpeg); an error of the engine is not caught
Ocr ==
  /\ pc = "ocr"
  /\ \/ LET t == ocr_tesseract(jpeg)
        IN  /\ text' = t /\ ocrOut' = Str(t)
            /\ Goto(IF t # NoText THEN "tts_text" ELSE "scan")
            /\ UNCHANGED <<jpeg, desc, lat, lon, acc, place, msg, raw, aps,
                           remote, scanned, mlsAns, ipAns, revAns, ipTried, spoken, heard>>
     \/ Raise("ocr")

\* line 166: tts_play of the lead-in and the text
TtsText ==
  /\ pc = "tts_text"
  /\ \/ /\ spoken' = Append(spoken, "text") /\ heard' = LEAD_IN \o text
        /\ Goto("scan")
        /\ UNCHANGED <<runVars, remote, ocrOut, scanned, mlsAns, ipAns, revAns, ipTried>>
     \/ Raise("tts")

\* lines 170-171 and 176: where process_once goes once lat is known
AfterLocate(lat_) == IF HasFix(lat_) THEN "reverse" ELSE "ret"
AfterMls(lat_) == IF NeedsIp(lat_) THEN "ip" ELSE AfterLocate(lat_)

\* lines 98-99 (and 169-170 when no access point was found): scan_wifi is
\* called outside the try of geo_from_mls, so a failing scan command raises
Scan(outputs) ==
  /\ pc = "scan"
  /\ \/ \E out \in outputs :
          /\ IF scan_wifi(out) = <<>>
             THEN /\ lat' = NoFix[1] /\ lon' = NoFix[2] /\ acc' = NoFix[3]
                  /\ raw' = <<>> /\ aps' = <<>> /\ scanned' = "empty"
                  /\ Goto(AfterMls(NoFix[1]))
             ELSE /\ raw' = out /\ aps' = scan_wifi(out) /\ scanned' = "found"
                  /\ UNCHANGED <<lat, lon, acc>>
                  /\ Goto("mls")
          /\ UNCHANGED <<jpeg, desc, text, place, msg,
                         remote, ocrOut, mlsAns, ipAns, revAns, ipTried, spoken, heard>>
     \/ Raise("scan")

\* lines 100-106 and 169-170: the WiFi-geolocation request and its result
Mls(responses) ==
  /\ pc = "mls"
  /\ \E r \in responses :
       LET fix == geo_from_mls(r)
       IN  /\ mlsAns' = Contacted(r)
           /\ lat' = fix[1] /\ lon' = fix[2] /\ acc' = fix[3]
           /\ Goto(AfterMls(fix[1]))
  /\ raw' = <<>> /\ aps' = <<>>
  /\ UNCHANGED <<jpeg, desc, text, place, msg, remote, ocrOut, scanned, ipTried, ipAns,
                 revAns, spoken, heard>>

\* lines 108-114 and 170-171: the IP-geolocation request and its result
Ip(responses) ==
  /\ pc = "ip"
  /\ ipTried' = TRUE
  /\ \E j \in responses :
       LET fix == geo_from_ip(j)
       IN  /\ ipAns' = IpAsked(j)
           /\ lat' = fix[1] /\ lon' = fix[2] /\ acc' = fix[3]
           /\ Goto(AfterLocate(fix[1]))
  /\ UNCHANGED <<jpeg, desc, text, place, msg, raw, aps, remote, ocrOut, scanned, mlsAns,
                 revAns, spoken, heard>>

\* lines 172-173: reverse geocoding, the placeholder, and the message, whose
\* int(acc) raises when acc is None
Reverse(responses) ==
  /\ pc = "reverse"
  /\ \E a \in responses :
       /\ revAns' = ReverseAsked(a)
       /\ place' = Or(Str(reverse_nominatim(a)), Str(PLACEHOLDER)).s
  /\ IF IntRaises(acc)
     THEN /\ pc' = "finally" /\ raised' = "format" /\ msg' = msg
          /\ log' = log \o <<[at |-> "reverse", ok |-> TRUE],
                               [at |-> "format", ok |-> FALSE]>>
     ELSE /\ pc' = "tts_loc" /\ raised' = raised
          /\ msg' = Message(place', acc)
          /\ log' = Append(log, [at |-> "reverse", ok |-> TRUE])
  /\ UNCHANGED <<gpio, timeVars, mainVars, pollObs, endObs, jpeg, desc, text, lat, lon, acc,
                 raw, aps, remote, ocrOut, scanned, mlsAns, ipAns, ipTried, spoken, heard>>

\* line 174: tts_play(msg)
TtsLoc ==
  /\ pc = "tts_loc"
  /\ \/ /\ spoken' = Append(spoken, "loc") /\ heard' = msg
        /\ Goto("ret")
        /\ UNCHANGED <<runVars, remote, ocrOut, scanned, mlsAns, ipAns, revAns, ipTried>>
     \/ Raise("tts")

\* ------------------------------------------------------------ specifications
\* Spec: every answer the services can give, within the time of the first
\* trigger and with one change of level between two samples.  The earliest
\* poll that can start process_once is the first one more than DEBOUNCE_MS
\* after startup.
RunHorizon == DEBOUNCE_MS + Quantum

Next ==
  \/ Tick(RunHorizon) \/ Toggle(1) \/ Poll \/ Return \/ Finally
  \/ Capture(Frames) \/ Describe(DescContents) \/ TtsDesc
  \/ Extract(RemoteContents) \/ Ocr \/ TtsText
  \/ Scan(ScanOutputs) \/ Mls(MlsResponses) \/ Ip(IpResponses)
  \/ Reverse(NominatimResponses) \/ TtsLoc

Spec == Init /\ [][Next]_vars

\* SpecPoll: the timing of the poll loop up to MaxTime, with one answer per
\* service (a run that passes through every stage) or its failure.
OneFrame == {2}
OneDesc == {TEXTO_PRESENTE_SIM}
OneRemote == {SEM_TEXTO}
OneScan == {<<Cell(1, TRUE)>>}
OneMls == {[ok |-> FALSE, lat |-> None, lng |-> None, accuracy |-> None]}
OneIp == {[ok |-> TRUE, loc |-> Str(<<"1", ",", "2">>)]}
OneNominatim == {[ok |-> FALSE, address |-> NoAddress]}

NextPoll ==
  \/ Tick(MaxTime) \/ Toggle(MaxTogs) \/ Poll \/ Return \/ Finally
  \/ Capture(OneFrame) \/ Describe(OneDesc) \/ TtsDesc
  \/ Extract(OneRemote) \/ Ocr \/ TtsText
  \/ Scan(OneScan) \/ Mls(OneMls) \/ Ip(OneIp)
  \/ Reverse(OneNominatim) \/ TtsLoc

SpecPoll == Init /\ [][NextPoll]_vars

\* SpecEnd: the requests to end the process, Ctrl+C and SIGTERM, arriving in
\* the sleep or at any stage of a run, with one answer per service.
NextEnd ==
  \/ Tick(RunHorizon) \/ Toggle(1) \/ Poll \/ Return \/ Finally
  \/ KeyboardInterrupt \/ Sigterm
  \/ Capture(OneFrame) \/ Describe(OneDesc) \/ TtsDesc
  \/ Extract(OneRemote) \/ Ocr \/ TtsText
  \/ Scan(OneScan) \/ Mls(OneMls) \/ Ip(OneIp)
  \/ Reverse(OneNominatim) \/ TtsLoc

SpecEnd == Init /\ [][NextEnd]_vars

\* ------------------------------------------------------------ properties
\* ---- the poll loop (SpecPoll)

\* C1, as stated: process_once is never started on a poll where the level
\* has differed from the confirmed level for less than DEBOUNCE_MS.
C1_NoTriggerBeforeDebounce ==
  trig.t # -1 => trig.held >= DEBOUNCE_MS

\* C1, amended: process_once is started only on the first poll after a change
\* of level, and only on a poll more than DEBOUNCE_MS after startup or after
\* the poll of the previous trigger.  How long the level has been different
\* plays no part, so a change that reverses early can produce a trigger event.
C1_TriggerOnFirstPollOutsideLockout ==
  trig.t # -1 => trig.poll = 1 /\ trig.gap > DEBOUNCE_MS

\* a run started by a change less than DEBOUNCE_MS old, which then reversed
\* less than DEBOUNCE_MS after it happened
C1_Witness ==
  /\ InRun /\ trig.poll = 1 /\ trig.held < DEBOUNCE_MS
  /\ chgInRun /\ togs = 1 /\ chgT - (trig.t - trig.held) < DEBOUNCE_MS

\* C2, as stated: a change made while no run is in progress and held for
\* DEBOUNCE_MS or more has, once polled that late, exactly one trigger event,
\* emitted no earlier than DEBOUNCE_MS after the change.
C2_OneTriggerAfterDebounce ==
  (chgT # -1 /\ ~chgInRun /\ pc = "sleep" /\ polls >= 1 /\ now >= chgT + DEBOUNCE_MS)
    => (nTrig = 1 /\ trig.held >= DEBOUNCE_MS)

\* C2, amended: for a change made while no run is in progress, exactly one
\* trigger event is emitted, on the first poll after the change, when that
\* poll reads a level other than the previous reading and comes more than
\* DEBOUNCE_MS after startup or after the poll of the previous trigger;
\* otherwise no trigger event is ever emitted for that change, however long
\* the level is held.
C2_OneTriggerOutsideLockout ==
  (chgT # -1 /\ ~chgInRun /\ polls >= 1)
    => /\ nTrig = (IF fp.odd /\ fp.gap > DEBOUNCE_MS THEN 1 ELSE 0)
       /\ nTrig = 1 => trig.poll = 1

\* a change held for DEBOUNCE_MS that was triggered once: the run is over
\* and the loop has polled again without a second trigger
C2_Witness ==
  /\ pc = "sleep" /\ ~chgInRun /\ nTrig = 1 /\ polls = 2
  /\ now > trig.t /\ clock - chgT >= DEBOUNCE_MS

\* C3, as stated: no trigger event answers a change of level made while
\* process_once was executing.
C3_ChangesInRunLost ==
  trig.t # -1 => ~trig.inRun

\* C3, amended: changes of level made during a run are not queued, and the
\* first poll after the run decides for all of them: one trigger event is
\* emitted when that poll reads a level other than the one read when the run
\* was started (an odd number of changes) and comes more than DEBOUNCE_MS
\* after the poll that started the run; otherwise none is ever emitted.
C3_ChangesInRunPolledOnce ==
  (chgInRun /\ polls >= 1)
    => nTrig = (IF fp.odd /\ fp.gap > DEBOUNCE_MS THEN 1 ELSE 0)

\* a second run started by changes made during the first one
C3_Witness ==
  /\ InRun /\ chgInRun /\ polls = 1 /\ nTrig = 1 /\ trig.inRun
  /\ trig.held < DEBOUNCE_MS

\* ---- process_once (Spec)
\* the stages of a run that come after the text step
AfterText == {"scan", "mls", "ip", "reverse", "tts_loc", "ret"}

\* C4, as stated: when capture_jpeg fails only the run is abandoned; the pin
\* stays configured and the poll loop goes on.
C4_LoopSurvivesCaptureFailure ==
  raised = "capture" => (gpio /\ pc # "exited")

\* C5, as stated: a run is left before its last stage only by a failure of
\* the capture or of a narration.
C5_OnlyCaptureOrNarrationAbort ==
  raised # "" => raised \in {"capture", "tts"}

\* C6: when the remote answer is SEM_TEXTO in any letter case or shorter than
\* 20 characters, the text used from then on is what ocr_tesseract returns
\* for the frame of this run.
C6_FallbackTextIsLocalOcr ==
  (pc \in AfterText \cup {"tts_text"} /\ remote # None
     /\ (Upper(remote.s) = SEM_TEXTO \/ Len(remote.s) < MIN_TEXT_LEN))
    => (ocrOut = Str(Strip(OcrEngine(jpeg))) /\ text = ocrOut.s)

\* the lower-case sentinel was answered and the text about to be narrated is
\* the one the local engine read in the frame
C6_Witness ==
  /\ pc = "tts_text" /\ remote = Str(<<"s","e","m","_","t","e","x","t","o">>)
  /\ jpeg = 2 /\ text = <<"R", "u", "a", " ", "A">>

\* C7: when the remote answer is not the sentinel and has 20 characters or
\* more, the text used is that answer and ocr_tesseract is not called in the
\* run.
C7_SufficientRemoteIsUsed ==
  (remote # None /\ Upper(remote.s) # SEM_TEXTO /\ Len(remote.s) >= MIN_TEXT_LEN)
    => (text = remote.s /\ ocrOut = None /\ pc # "ocr")

\* a run that used a remote answer of exactly 20 characters and went on to
\* the location step
C7_Witness ==
  /\ pc = "tts_loc" /\ remote # None /\ Len(remote.s) = MIN_TEXT_LEN
  /\ text = remote.s /\ ocrOut = None /\ spoken = <<"desc", "text">>

\* C8, as stated: when the WiFi-geolocation service answers with a location,
\* geo_from_ip is not attempted in the run.
C8_NoIpAfterWifiAnswer ==
  (mlsAns.contacted /\ mlsAns.ok /\ mlsAns.lat.k = "num" /\ mlsAns.lng.k = "num")
    => (~ipTried /\ pc # "ip")

\* C9: when the scan finds no access point, the WiFi stage gives no fix, the
\* WiFi-geolocation service is not contacted, and geo_from_ip is attempted.
C9_EmptyScanGoesToIp ==
  scanned = "empty"
    => /\ ~mlsAns.contacted
       /\ IF pc = "ip" THEN <<lat, lon, acc>> = NoFix ELSE ipTried

\* after an empty scan the IP stage was attempted and gave the fix
C9_Witness ==
  /\ scanned = "empty" /\ ~mlsAns.contacted /\ ipTried /\ pc = "reverse"
  /\ acc = Num(IP_ACCURACY)

\* C10, as stated: when the fix branch is taken the fix has a latitude, a
\* longitude and an accuracy, and the accuracy of a fix from the IP stage is
\* 50000; otherwise no fix is signalled.
C10_FixIsComplete ==
  /\ pc \in {"reverse", "tts_loc"}
       => /\ lat # None /\ lon # None /\ acc # None
          /\ ipTried => acc = Num(IP_ACCURACY)
  /\ (pc = "ret" /\ spoken[Len(spoken)] # "loc") => ~Truthy(lat)

\* ---- the location services (Spec)
\* an answer of the WiFi service that is not {lat, lon, accuracy}: a failed
\* request, or a field that is missing or null
MlsFailed(r) ==
  ~r.ok \/ ~IsNumber(r.lat) \/ ~IsNumber(r.lng) \/ ~IsNumber(r.accuracy)

\* an answer of the IP service that is not "lat,lon": a failed request, no
\* "loc", or a "loc" that is not two non-empty parts
IpFailed(j) ==
  \/ ~j.ok
  \/ j.loc = None
  \/ LET parts == Split(j.loc.s, ",")
     IN  Len(parts) # 2 \/ parts[1] = <<>> \/ parts[2] = <<>>

\* C11, as stated: a failed request or a malformed answer of the WiFi, IP or
\* reverse-geocoding service raises nothing in the run; the WiFi stage and
\* the IP stage then give no fix (the run goes on to the next stage without
\* one), and reverse geocoding gives the empty place, which the message
\* replaces with the placeholder.
C11_ServiceFailureIsNoFix ==
  /\ raised \notin {"mls", "ip", "reverse", "format"}
  /\ (mlsAns.contacted /\ MlsFailed(mlsAns))
       => IF pc = "ip" THEN ~Truthy(lat) ELSE ipTried
  /\ (ipAns.asked /\ IpFailed(ipAns))
       => (~Truthy(lat) /\ pc \notin {"reverse", "tts_loc"})
  /\ (revAns.asked /\ ~revAns.ok) => place = PLACEHOLDER

\* the cells of a scan output, up to the p-th, that scan_wifi keeps
Kept(out, p) == {q \in 1..p : out[q].signal # None}

\* C12: the list posted to the WiFi service has at most 20 entries, and its
\* i-th entry is the i-th cell of the scan that has a MAC and a signal, with
\* that cell's MAC and signal: the first cells in scan order, whatever their
\* signal strength.
C12_SubmittedApsArePrefix ==
  pc = "mls"
    => /\ Len(aps) <= MAX_APS
       /\ Len(aps) = Min(Cardinality(Kept(raw, Len(raw))), MAX_APS)
       /\ \A i \in DOMAIN aps :
            \E p \in DOMAIN raw :
              /\ raw[p].signal # None /\ Cardinality(Kept(raw, p)) = i
              /\ aps[i].macAddress = raw[p].mac
              /\ aps[i].signalStrength = raw[p].signal.n

\* a scan of more than 20 usable cells is about to be posted, cut at 20
C12_Witness ==
  /\ pc = "mls" /\ Cardinality(Kept(raw, Len(raw))) > MAX_APS
  /\ Len(aps) = MAX_APS /\ aps[MAX_APS].macAddress = raw[MAX_APS].mac

\* ---- place rendering (Spec)
\* the first synonym of a component that is not null, "" when all are null
FirstNonNull(syns) ==
  IF \A i \in DOMAIN syns : syns[i] = None THEN <<>>
  ELSE syns[CHOOSE i \in DOMAIN syns :
              syns[i] # None /\ \A h \in 1..(i - 1) : syns[h] = None].s

\* the first synonym of a component that is a non-empty string, "" when
\* there is none
FirstNonEmpty(syns) ==
  IF \A i \in DOMAIN syns : syns[i].s = <<>> THEN <<>>
  ELSE syns[CHOOSE i \in DOMAIN syns :
              syns[i].s # <<>> /\ \A h \in 1..(i - 1) : syns[h].s = <<>>].s

\* the synonyms of the four components of an address, in rendering order
Components(addr) ==
  << <<addr.road>>, <<addr.suburb, addr.neighbourhood>>,
     <<addr.city, addr.town, addr.village>>, <<addr.state>> >>

\* the place of the location message for the four components of an
\* address: the non-empty ones joined by ", ", or the placeholder
Rendered(comps) ==
  LET shown == SelectSeq(comps, LAMBDA c : c # <<>>)
  IN  IF shown = <<>> THEN PLACEHOLDER ELSE Join(shown)

\* C13, as stated: the place is road, suburb-or-neighbourhood,
\* city-or-town-or-village, state, each the first synonym that is not null,
\* the empty ones left out and the rest joined by ", "; the placeholder when
\* nothing is left.
C13_FirstNonNullSynonym ==
  (revAns.asked /\ revAns.ok)
    => place = Rendered([i \in 1..4 |-> FirstNonNull(Components(revAns.address)[i])])

\* C13, amended: as above, but each component is its first synonym that is
\* neither null nor the empty string, so an empty suburb, city or town passes
\* the choice on to the next synonym.
C13_FirstNonEmptySynonym ==
  (revAns.asked /\ revAns.ok)
    => place = Rendered([i \in 1..4 |-> FirstNonEmpty(Components(revAns.address)[i])])

\* an address whose town is "" and whose village is named: the village is
\* rendered, after the neighbourhood and before the state
C13_Witness ==
  /\ pc = "tts_loc" /\ revAns.ok
  /\ revAns.address.town = Str(<<>>) /\ revAns.address.village = Str(CIDADE_C)
  /\ place = BAIRRO_B \o <<",", " ">> \o CIDADE_C \o <<",", " ", "S">>

\* ---- the end of the process (SpecEnd)
\* the process has been asked to end, or an error is leaving main
Ending == asked # {} \/ raised # ""

\* C14, as stated: once Ctrl+C or SIGTERM has arrived or an error has left a
\* run, whatever main was doing, the process does nothing more than release
\* the pin and stop: the next place it goes to is the finally clause or the
\* exit, and when it has stopped GPIO.cleanup has run.
C14_EndRequestReleasesAndStops ==
  [][(Ending /\ pc' # pc)
       => (pc' \in {"finally", "exited"} /\ (pc' = "exited" => ~gpio'))]_vars

\* C20, as stated: GPIO.input is never called once GPIO.cleanup has run,
\* wherever the SIGTERM handler interrupts the poll loop or a run.
C20_NoReadAfterCleanup ==
  ~lateRead

\* ---- the order of a run (Spec)
\* the place of each stage in the order of process_once: capture,
\* description, its narration, text extraction (remote, then local), the
\* narration of the text, location resolution (scan, WiFi, IP, reverse
\* geocoding), the narration of the location
Rank(at) ==
  CASE at = "capture" -> 1 [] at = "describe" -> 2 [] at = "tts_desc" -> 3
    [] at = "extract" -> 4 [] at = "ocr" -> 5 [] at = "tts_text" -> 6
    [] at = "scan" -> 7 [] at = "mls" -> 8 [] at = "ip" -> 9
    [] at = "reverse" -> 10 [] at = "tts_loc" -> 11
    [] OTHER -> 12

\* the stages of the run so far that are the given one
Times(at) == Cardinality({i \in DOMAIN log : log[i].at = at})

\* the narrations of the run so far, in order
Narrations ==
  LET tts == SelectSeq(log, LAMBDA e : e.at \in {"tts_desc", "tts_text", "tts_loc"})
  IN  [i \in DOMAIN tts |->
         CASE tts[i].at = "tts_desc" -> "desc"
           [] tts[i].at = "tts_text" -> "text"
           [] tts[i].at = "tts_loc" -> "loc"]

\* C15: in a run that completes, the stages were executed in the order
\* capture, description, narration of the description, text extraction,
\* narration of the text, location resolution, narration of the location,
\* each at most once and each one returned before the next began; the capture,
\* the description, its narration and the location resolution are always
\* there, and what was played is one narration per narration stage.
C15_StagesInOrder ==
  pc = "ret"
    => /\ \A i \in DOMAIN log : log[i].ok
       /\ \A i \in 1..(Len(log) - 1) : Rank(log[i].at) < Rank(log[i + 1].at)
       /\ Len(log) >= 4
       /\ log[1].at = "capture" /\ log[2].at = "describe" /\ log[3].at = "tts_desc"
       /\ Times("scan") = 1
       /\ Times("tts_desc") = 1 /\ Times("tts_text") <= 1 /\ Times("tts_loc") <= 1
       /\ spoken = Narrations

\* a run that went through every stage and narrated the description, the
\* text and the location
C15_Witness ==
  /\ pc = "ret" /\ Len(log) = 11 /\ spoken = <<"desc", "text", "loc">>
  /\ log[4].at = "extract" /\ log[7].at = "scan" /\ log[11].at = "tts_loc"

\* ---- the text step (Spec)
\* C16: the text-extraction request and the local OCR engine are used only
\* in a run whose description contains TEXTO_PRESENTE=SIM (in any letter
\* case); once the text step of such a run is over, the text was narrated
\* exactly when the final text is not empty, and an empty final text raised
\* nothing: the run goes on to the location step.
C16_TextStepOnlyOnMarker ==
  /\ (Times("extract") > 0 \/ Times("ocr") > 0 \/ remote # None \/ ocrOut # None)
       => Contains(Upper(desc), TEXTO_PRESENTE_SIM)
  /\ (pc \in AfterText /\ remote # None)
       => /\ Times("tts_text") = (IF text # <<>> THEN 1 ELSE 0)
          /\ (text = <<>> => \A i \in DOMAIN log : log[i].ok)
          /\ spoken[Len(spoken)] = "text" => heard = LEAD_IN \o text
  /\ (pc \in AfterText /\ remote = None) => Times("tts_text") = 0

\* a run whose description carries the marker in lower case, whose remote
\* answer was the sentinel and whose frame holds no text: nothing was
\* narrated for the text and the location step has begun
C16_Witness ==
  /\ pc = "mls" /\ desc # Upper(desc) /\ remote = Str(SEM_TEXTO)
  /\ ocrOut = Str(<<>>) /\ text = <<>> /\ spoken = <<"desc">> /\ heard = desc

\* ---- the location step (Spec)
\* a sequence of decimal digits
IsInteger(cs) ==
  cs # <<>> /\ \A i \in DOMAIN cs : \E d \in DOMAIN DigitCs : DigitCs[d] = cs[i]

\* the message is the fixed words around a place and an integer of meters
SaysPlaceAndMeters(m, place_) ==
  \E n \in 1..(Len(m) - Len(MSG_HEAD) - Len(place_) - Len(MSG_MID) - Len(MSG_TAIL)) :
     \E meters \in {SubSeq(m, Len(m) - Len(MSG_TAIL) - n + 1, Len(m) - Len(MSG_TAIL))} :
        /\ IsInteger(meters)
        /\ m = MSG_HEAD \o place_ \o MSG_MID \o meters \o MSG_TAIL

\* C17, as stated: once the location of a run is resolved, a fix leads to
\* the reverse-geocoding request and, unless the narration itself fails, to
\* one narration of a message made of the place (the placeholder when the
\* request gave none) and the accuracy as an integer; without a fix the
\* request is not made and nothing is narrated for the location.
C17_FixIsNarratedOnce ==
  /\ Truthy(lat)
       => /\ pc # "reverse" => revAns.asked
          /\ raised # "format"
          /\ pc = "ret"
               => /\ Times("reverse") = 1 /\ Times("tts_loc") = 1
                  /\ heard = msg
                  /\ SaysPlaceAndMeters(msg, place)
                  /\ place = (IF reverse_nominatim(revAns) = <<>> THEN PLACEHOLDER
                              ELSE reverse_nominatim(revAns))
  /\ (pc = "ret" /\ ~Truthy(lat))
       => (~revAns.asked /\ Times("reverse") = 0 /\ Times("tts_loc") = 0)

\* ---- narration failures (Spec)
\* the narration stages
TtsStages == {"tts_desc", "tts_text", "tts_loc"}

\* C18: a narration that fails is the last thing its run does: the failure
\* is the last entry of the run's record (no second attempt, no later
\* stage), it is the exception that leaves process_once, and main is in its
\* finally clause or has exited.
C18_NarrationFailureEndsRun ==
  \A i \in DOMAIN log :
    (log[i].at \in TtsStages /\ ~log[i].ok)
      => /\ i = Len(log)
         /\ raised = "tts"
         /\ pc \in {"finally", "exited"}
         /\ Times(log[i].at) = 1

\* the narration of the text failed after the description was narrated: the
\* location step was never begun
C18_Witness ==
  /\ pc = "exited" /\ raised = "tts" /\ spoken = <<"desc">>
  /\ log[Len(log)] = [at |-> "tts_text", ok |-> FALSE]
  /\ scanned = "none" /\ Times("scan") = 0

\* ---- the lockout of the poll loop (SpecPoll)
\* C19: every trigger event is on a poll more than DEBOUNCE_MS after the
\* poll of the trigger event before it, or after startup for the first one,
\* and on a poll that read a level other than the one read by the poll
\* before it (the initial reading for the first poll).
C19_TriggersApartAndOnEdge ==
  trig.t # -1 => (trig.gap > DEBOUNCE_MS /\ trig.edge)

\* a second trigger event, more than DEBOUNCE_MS after the first
C19_Witness ==
  /\ pc = "capture" /\ trig.edge /\ trig.gap > DEBOUNCE_MS
  /\ trig.t - trig.gap > DEBOUNCE_MS /\ last_t = trig.t - trig.gap

====
